---------------------------- MODULE Spec2Model ----------------------------
(***************************************************************************)
(* Model of main.py: the periodic job job_update_date that reads the order *)
(* sheet, converts the cost with the USD rate, merges every row into the   *)
(* table "test" and notifies once about an expired delivery date.          *)
(*                                                                         *)
(* Strings are sequences of one-character strings, so that int(), float()  *)
(* and strptime() are modelled by what they compute.  Money is counted in  *)
(* hundredths (cost_usd, cost_rur) and the rate in hundredths of a rouble. *)
(* Dates are <<year, month, day>>.                                         *)
(***************************************************************************)
EXTENDS Integers, Sequences, FiniteSets, TLC

(***************************************************************************)
(* Bounds of the model.                                                    *)
(***************************************************************************)
MaxRows == 2        \* data rows of a sheet (the header row comes on top)
MaxRestarts == 1    \* restarts of the process

(***************************************************************************)
(* Python's int(), float(), strptime() and round() on the modelled domain. *)
(***************************************************************************)
Digits == {"0", "1", "2", "3", "4", "5", "6", "7", "8", "9"}

DigitVal(c) ==
    CASE c = "0" -> 0 [] c = "1" -> 1 [] c = "2" -> 2 [] c = "3" -> 3
      [] c = "4" -> 4 [] c = "5" -> 5 [] c = "6" -> 6 [] c = "7" -> 7
      [] c = "8" -> 8 [] c = "9" -> 9

IsDigits(s) == Len(s) > 0 /\ \A k \in 1..Len(s) : s[k] \in Digits

RECURSIVE DigitsVal(_)
DigitsVal(s) ==
    IF Len(s) = 0 THEN 0
    ELSE 10 * DigitsVal(SubSeq(s, 1, Len(s) - 1)) + DigitVal(s[Len(s)])

Unsigned(s) == IF Len(s) > 0 /\ s[1] \in {"-", "+"} THEN Tail(s) ELSE s

Sign(s) == IF Len(s) > 0 /\ s[1] = "-" THEN -1 ELSE 1

\* int(s): an optional sign and decimal digits, anything else is a ValueError
IsInt(s) == IsDigits(Unsigned(s))

ParseInt(s) == Sign(s) * DigitsVal(Unsigned(s))

DotPositions(s) == {k \in 1..Len(s) : s[k] = "."}

\* float(s): an optional sign, digits and at most one point; the model
\* covers the literals with at most two digits after the point
IsFloat(s) ==
    LET u == Unsigned(s)
        dots == DotPositions(u)
    IN  \/ IsDigits(u)
        \/ /\ Cardinality(dots) = 1
           /\ LET d == CHOOSE k \in dots : TRUE
                  ip == SubSeq(u, 1, d - 1)
                  fp == SubSeq(u, d + 1, Len(u))
              IN  /\ Len(ip) + Len(fp) > 0
                  /\ Len(fp) <= 2
                  /\ Len(ip) > 0 => IsDigits(ip)
                  /\ Len(fp) > 0 => IsDigits(fp)

\* the value of float(s) in hundredths
ParseFloat(s) ==
    LET u == Unsigned(s)
        dots == DotPositions(u)
    IN  IF dots = {} THEN Sign(s) * 100 * DigitsVal(u)
        ELSE LET d == CHOOSE k \in dots : TRUE
                 ip == SubSeq(u, 1, d - 1)
                 fp == SubSeq(u, d + 1, Len(u))
                 frac == IF Len(fp) = 1 THEN 10 * DigitsVal(fp) ELSE DigitsVal(fp)
             IN  Sign(s) * (100 * DigitsVal(ip) + frac)

\* round(x, 2) of a product given in ten-thousandths, result in hundredths,
\* ties to the even neighbour; the costs and rates of the model give no ties,
\* where the binary float could fall on either side
Round2(p) ==
    LET a == IF p < 0 THEN -p ELSE p
        q == a \div 100
        r == a % 100
        m == IF r > 50 \/ (r = 50 /\ q % 2 = 1) THEN q + 1 ELSE q
    IN  IF p < 0 THEN -m ELSE m

\* the number of float4 values per unit at a magnitude of w units: 24 bits of
\* mantissa leave 2^(23-e) steps per unit for 2^e <= w < 2^(e+1); 0 stands for
\* a spacing below 1/128, too fine to move a value of two decimals
RealSteps(w) ==
    IF w < 131072 THEN 0
    ELSE IF w < 262144 THEN 64
    ELSE IF w < 524288 THEN 32
    ELSE IF w < 1048576 THEN 16
    ELSE 8

\* the nearest of the multiples of unit to a / b, in that unit, for a, b > 0
Nearest(a, b, unit) == (2 * a * unit + b) \div (2 * b)

\* a value of hundredths as a column sa.Float(precision=2) holds it and gives
\* it back: the DDL is FLOAT(2), which PostgreSQL takes as real (float4), so
\* the value is rounded to the nearest float4 and read back as the shortest
\* decimal that names this float4
Float(n) ==
    LET a == IF n < 0 THEN -n ELSE n
        w == a \div 100
        f == a % 100
        q == RealSteps(w)
        \* the stored value is w + j / q
        j == Nearest(f, 100, q)
        \* the nearest decimal of one digit and of two digits after the point
        t == Nearest(j, q, 10)
        h == Nearest(j, q, 100)
        Abs(x) == IF x < 0 THEN -x ELSE x
        m == IF q = 0 THEN a
             ELSE IF j = 0 THEN 100 * w
             ELSE IF j = q THEN 100 * (w + 1)
             ELSE IF 2 * Abs(t * q - 10 * j) < 10 THEN 100 * w + 10 * t
             ELSE 100 * w + h
    IN  IF n < 0 THEN -m ELSE m

IsLeap(y) == (y % 4 = 0 /\ y % 100 # 0) \/ y % 400 = 0

DaysInMonth(y, m) ==
    IF m = 2 THEN (IF IsLeap(y) THEN 29 ELSE 28)
    ELSE IF m \in {4, 6, 9, 11} THEN 30 ELSE 31

\* strptime(s, "%d.%m.%Y"): day and month of one or two digits, a year of
\* four digits, separated by points, and a date that exists
IsDate(s) ==
    LET dots == DotPositions(s)
    IN  /\ Cardinality(dots) = 2
        /\ LET d1 == CHOOSE k \in dots : \A j \in dots : k <= j
               d2 == CHOOSE k \in dots : \A j \in dots : k >= j
               dd == SubSeq(s, 1, d1 - 1)
               mm == SubSeq(s, d1 + 1, d2 - 1)
               yy == SubSeq(s, d2 + 1, Len(s))
           IN  /\ IsDigits(dd) /\ Len(dd) <= 2
               /\ IsDigits(mm) /\ Len(mm) <= 2
               /\ IsDigits(yy) /\ Len(yy) = 4
               /\ DigitsVal(yy) >= 1
               /\ DigitsVal(mm) \in 1..12
               /\ DigitsVal(dd) \in 1..DaysInMonth(DigitsVal(yy), DigitsVal(mm))

ParseDate(s) ==
    LET dots == DotPositions(s)
        d1 == CHOOSE k \in dots : \A j \in dots : k <= j
        d2 == CHOOSE k \in dots : \A j \in dots : k >= j
    IN  << DigitsVal(SubSeq(s, d2 + 1, Len(s))),
           DigitsVal(SubSeq(s, d1 + 1, d2 - 1)),
           DigitsVal(SubSeq(s, 1, d1 - 1)) >>

\* datetime.date.__lt__
DateLess(a, b) ==
    \/ a[1] < b[1]
    \/ a[1] = b[1] /\ a[2] < b[2]
    \/ a[1] = b[1] /\ a[2] = b[2] /\ a[3] < b[3]

NextDay(d) ==
    IF d[3] < DaysInMonth(d[1], d[2]) THEN <<d[1], d[2], d[3] + 1>>
    ELSE IF d[2] < 12 THEN <<d[1], d[2] + 1, 1>>
    ELSE <<d[1] + 1, 1, 1>>

(***************************************************************************)
(* The inputs: the rows a sheet may hold, the rates, the first day.        *)
(***************************************************************************)
Date_Jan30 == <<"3", "0", ".", "0", "1", ".", "2", "0", "2", "0">>
Date_Feb01 == <<"0", "1", ".", "0", "2", ".", "2", "0", "2", "0">>
Date_Iso   == <<"2", "0", "2", "0", "-", "0", "1", "-", "3", "0">>

Header == << <<"i", "d">>, <<"n", "o">>, <<"u", "s", "d">>, <<"d", "a", "t", "e">> >>

\* costs of 0.01, 1500.03 and -0.01: at the rate 90.40 the second one makes
\* 135602.71 roubles, an amount with more digits than a float4 holds
Row_A == << <<"1">>, <<"1", "0">>, <<"0", ".", "0", "1">>, Date_Jan30 >>
Row_B == << <<"1">>, <<"1", "1">>, <<"1", "5", "0", "0", ".", "0", "3">>, Date_Feb01 >>
Row_C == << <<"2">>, <<"1", "0">>, <<"-", "0", ".", "0", "1">>, Date_Jan30 >>
Row_BadDate == << <<"2">>, <<"1", "0">>, <<"0", ".", "0", "1">>, Date_Iso >>

DataRows == {Row_A, Row_B, Row_C, Row_BadDate}

\* first rows of a sheet that has lost its header
HeaderlessFirst == {Row_C}

NoRepeat(s) == \A a, b \in 1..Len(s) : s[a] = s[b] => a = b

\* the sequences of at most n different elements of S
RECURSIVE SeqsUpTo(_, _)
SeqsUpTo(S, n) ==
    IF n = 0 THEN {<< >>}
    ELSE LET shorter == SeqsUpTo(S, n - 1)
             longer == {Append(s, x) : s \in {t \in shorter : Len(t) = n - 1}, x \in S}
         IN  shorter \cup {t \in longer : NoRepeat(t)}

\* what worksheet.get_all_values() may return: nothing, the header followed
\* by different data rows, or (one row shorter) data rows only
Sheets ==
    {<< >>}
      \cup {<<Header>> \o s : s \in SeqsUpTo(DataRows, MaxRows)}
      \cup {<<h>> \o s : h \in HeaderlessFirst, s \in SeqsUpTo(DataRows, MaxRows - 1)}

\* the rates of the feed, in hundredths: 90.00 and 90.40
Rates == {9000, 9040}

\* the days the clock shows: from 31 January to 2 February 2020
FirstDay == <<2020, 1, 31>>

LastDay == <<2020, 2, 2>>

(***************************************************************************)
(* Schema.__init__ and the table model Test.                               *)
(***************************************************************************)
\* Schema(usd_rate, *row) raises (ValueError, or IndexError on a short row)
\* unless all four conversions succeed
SchemaOk(raw) ==
    /\ Len(raw) >= 4
    /\ IsInt(raw[1])
    /\ IsInt(raw[2])
    /\ IsFloat(raw[3])
    /\ IsDate(raw[4])

Schema(rate, raw) ==
    [id            |-> ParseInt(raw[1]),
     order_id      |-> ParseInt(raw[2]),
     cost_usd      |-> ParseFloat(raw[3]),
     cost_rur      |-> Round2(ParseFloat(raw[3]) * rate),
     delivery_date |-> ParseDate(raw[4])]

NoSchema ==
    [id |-> 0, order_id |-> 0, cost_usd |-> 0, cost_rur |-> 0,
     delivery_date |-> <<0, 0, 0>>]

\* the ids the rows of the model can carry
Ids == {ParseInt(r[1]) : r \in {x \in DataRows : IsInt(x[1])}}

EmptyDb == [k \in {} |-> 0]

InsertedNotified(r) ==
    [order_id      |-> r.order_id,
     cost_usd      |-> Float(r.cost_usd),
     cost_rur      |-> Float(r.cost_rur),
     delivery_date |-> r.delivery_date,
     is_notified   |-> TRUE]

\* a row of the table as db.merge + commit inserts it: is_notified is not
\* among the attributes of Test(**asdict(row)), the column default applies
Inserted(r) ==
    [order_id      |-> r.order_id,
     cost_usd      |-> Float(r.cost_usd),
     cost_rur      |-> Float(r.cost_rur),
     delivery_date |-> r.delivery_date,
     is_notified   |-> FALSE]

UpdatedResetsFlag(old, r) ==
    [order_id      |-> r.order_id,
     cost_usd      |-> Float(r.cost_usd),
     cost_rur      |-> Float(r.cost_rur),
     delivery_date |-> r.delivery_date,
     is_notified   |-> FALSE]

UpdatedAccumulates(old, r) ==
    [order_id      |-> r.order_id,
     cost_usd      |-> Float(old.cost_usd + r.cost_usd),
     cost_rur      |-> Float(old.cost_rur + r.cost_rur),
     delivery_date |-> r.delivery_date,
     is_notified   |-> old.is_notified]

\* a persistent row after db.merge copied the attributes the given instance
\* carries; is_notified is not one of them
Updated(old, r) ==
    [order_id      |-> r.order_id,
     cost_usd      |-> Float(r.cost_usd),
     cost_rur      |-> Float(r.cost_rur),
     delivery_date |-> r.delivery_date,
     is_notified   |-> old.is_notified]

MergeDropsOthers(table, r) ==
    [k \in {r.id} |->
        IF k \in DOMAIN table THEN Updated(table[k], r) ELSE Inserted(r)]

\* db.merge(Test(**asdict(row))); db.commit()
Merge(table, r) ==
    [k \in DOMAIN table \cup {r.id} |->
        IF k # r.id THEN table[k]
        ELSE IF k \in DOMAIN table THEN Updated(table[k], r)
        ELSE Inserted(r)]

SetNotifiedLost(table, k) == table

\* obj.is_notified = True; db.commit()
SetNotified(table, k) == [table EXCEPT ![k].is_notified = TRUE]

ExpiredIgnoresFlag(o, day) == DateLess(o.delivery_date, day)

ExpiredNotStrict(o, day) == ~o.is_notified /\ ~DateLess(day, o.delivery_date)

\* the condition of the expiration check
Expired(o, day) == ~o.is_notified /\ DateLess(o.delivery_date, day)

(***************************************************************************)
(* The state.                                                              *)
(***************************************************************************)
VARIABLES
    sheet,       \* the rows of the Google sheet
    today,       \* datetime.date.today()
    db,          \* the committed rows of table "test", by id
    pc,          \* where the job thread is
    rows,        \* job_update_date: rows
    usd_rate,    \* job_update_date: usd_rate
    i,           \* _save_to_db: position of the generator in rows
    row,         \* _save_to_db: row
    obj,         \* _save_to_db: id of the persistent object obj
    delivered,   \* history: messages the notifier has sent out per id
    cycleCalls,  \* history: calls of the notifier per id in this cycle
    msg,         \* history: the message of the last call of the notifier
    err,         \* history: what ended the cycle
    notifiedStart, \* history: the ids notified when the cycle began
    todayStart,  \* history: today when the cycle began
    restarts,    \* history: restarts of the process
    faults       \* history: kinds of failure the run has seen

vars == <<sheet, today, db, pc, rows, usd_rate, i, row, obj, delivered,
          cycleCalls, msg, err, notifiedStart, todayStart, restarts, faults>>

job == <<pc, rows, usd_rate, i, row, obj>>
env == <<sheet, today>>
hist == <<delivered, cycleCalls, msg, err, notifiedStart, todayStart, restarts, faults>>

Zero == [k \in Ids |-> 0]

DigitChar(n) == CHOOSE c \in Digits : DigitVal(c) = n

\* str(n) of an integer
RECURSIVE IntStr(_)
IntStr(n) ==
    IF n < 0 THEN <<"-">> \o IntStr(-n)
    ELSE IF n < 10 THEN <<DigitChar(n)>>
    ELSE Append(IntStr(n \div 10), DigitChar(n % 10))

\* the decimal digits of n >= 0 filled with zeros to the width w
Padded(n, w) ==
    LET s == IntStr(n)
    IN  [k \in 1..(w - Len(s)) |-> "0"] \o s

\* str(d) of a datetime.date: year-month-day
IsoDate(d) == Padded(d[1], 4) \o <<"-">> \o Padded(d[2], 2) \o <<"-">> \o Padded(d[3], 2)

\* the two fields the f-string of the message is filled with: obj.id and
\* obj.delivery_date of the persistent object, as the session loads them
Message(k, o) == [id |-> IntStr(k), delivery_date |-> IsoDate(o.delivery_date)]

NoMessage == [id |-> << >>, delivery_date |-> << >>]

Init ==
    /\ sheet \in Sheets
    /\ today = FirstDay
    /\ db = EmptyDb
    /\ pc = "idle"
    /\ rows = << >>
    /\ usd_rate = 0
    /\ i = 0
    /\ row = NoSchema
    /\ obj = 0
    /\ delivered = Zero
    /\ cycleCalls = Zero
    /\ msg = NoMessage
    /\ err = "none"
    /\ notifiedStart = {}
    /\ todayStart = FirstDay
    /\ restarts = 0
    /\ faults = {}

\* an exception leaves job_update_date: neither the function nor the loop of
\* the Timeloop job thread that calls it has a handler, so the thread ends
\* while the main thread goes on sleeping
Raise(e, f) ==
    /\ pc' = "dead"
    /\ err' = e
    /\ faults' = faults \cup f

(***************************************************************************)
(* The environment.                                                        *)
(***************************************************************************)
\* one edit of a sheet: a row is added at the end, the last row is removed,
\* or one row is overwritten
Edits(s) ==
    ({Append(s, x) : x \in DataRows \cup {Header}}
       \cup (IF Len(s) > 0 THEN {SubSeq(s, 1, Len(s) - 1)} ELSE {})
       \cup {[s EXCEPT ![k] = x] : k \in 1..Len(s), x \in DataRows \cup {Header}})
    \cap (Sheets \ {s})

\* the sheet is edited between two cycles; a cycle works on the rows it read
EditSheet ==
    /\ pc = "idle"
    /\ sheet' \in Edits(sheet)
    /\ UNCHANGED <<today, db, job, hist>>

\* the date changes; today is read by the expiration check only, so the
\* change is taken where it can be seen: between cycles and at the check
Midnight ==
    /\ pc \in {"idle", "check"}
    /\ DateLess(today, LastDay)
    /\ today' = NextDay(today)
    /\ UNCHANGED <<sheet, db, job, hist>>

(***************************************************************************)
(* The job.                                                                *)
(***************************************************************************)
TickWhileRunning ==
    /\ pc # "dead"
    /\ pc' = "fetch"
    /\ notifiedStart' = {k \in DOMAIN db : db[k].is_notified}
    /\ todayStart' = today
    /\ UNCHANGED <<env, db, rows, usd_rate, i, row, obj, delivered,
                   cycleCalls, msg, err, restarts, faults>>

\* the interval has passed: the wait of the Timeloop job thread ends and the
\* thread calls job_update_date; it waits again only when the call is back
Tick ==
    /\ pc = "idle"
    /\ pc' = "fetch"
    /\ notifiedStart' = {k \in DOMAIN db : db[k].is_notified}
    /\ todayStart' = today
    /\ UNCHANGED <<env, db, rows, usd_rate, i, row, obj, delivered,
                   cycleCalls, msg, err, restarts, faults>>

\* rows = _get_order_data()
GetOrderData ==
    /\ pc = "fetch"
    /\ \/ /\ rows' = sheet
          /\ pc' = "rate"
          /\ UNCHANGED <<err, faults>>
       \/ /\ Raise("source", {})
          /\ UNCHANGED rows
    /\ UNCHANGED <<env, db, usd_rate, i, row, obj, delivered, cycleCalls, msg,
                   notifiedStart, todayStart, restarts>>

GetUsdCurrencyRateDefault ==
    /\ pc = "rate"
    /\ \/ /\ usd_rate' \in Rates
          /\ UNCHANGED <<err, faults>>
       \/ /\ usd_rate' = 9000
          /\ err' = "rate"
          /\ UNCHANGED faults
    /\ i' = 2
    /\ pc' = "next"
    /\ UNCHANGED <<env, db, rows, row, obj, delivered, cycleCalls, msg,
                   notifiedStart, todayStart, restarts>>

GetUsdCurrencyRateNoSkip ==
    /\ pc = "rate"
    /\ \/ /\ usd_rate' \in Rates
          /\ i' = 1
          /\ pc' = "next"
          /\ UNCHANGED <<err, faults>>
       \/ /\ Raise("rate", {})
          /\ UNCHANGED <<usd_rate, i>>
    /\ UNCHANGED <<env, db, rows, row, obj, delivered, cycleCalls, msg,
                   notifiedStart, todayStart, restarts>>

\* usd_rate = _get_usd_currency_rate(); _save_to_db starts at rows[1:]
GetUsdCurrencyRate ==
    /\ pc = "rate"
    /\ \/ /\ usd_rate' \in Rates
          /\ i' = 2
          /\ pc' = "next"
          /\ UNCHANGED <<err, faults>>
       \/ /\ Raise("rate", {})
          /\ UNCHANGED <<usd_rate, i>>
    /\ UNCHANGED <<env, db, rows, row, obj, delivered, cycleCalls, msg,
                   notifiedStart, todayStart, restarts>>

\* the for statement asks the generator for the next Schema
NextRow ==
    /\ pc = "next"
    /\ IF i > Len(rows)
       THEN /\ pc' = "done"
            /\ UNCHANGED <<row, err, faults>>
       ELSE IF SchemaOk(rows[i])
       THEN /\ row' = Schema(usd_rate, rows[i])
            /\ pc' = "merge"
            /\ UNCHANGED <<err, faults>>
       ELSE /\ Raise("malformed", {})
            /\ UNCHANGED row
    /\ UNCHANGED <<env, db, rows, usd_rate, i, obj, delivered, cycleCalls, msg,
                   notifiedStart, todayStart, restarts>>

MergeCommitOneTransaction ==
    /\ pc = "merge"
    /\ \/ /\ db' = Merge(db, row)
          /\ obj' = row.id
          /\ pc' = "check"
          /\ UNCHANGED <<err, faults>>
       \/ /\ Raise("storage", {})
          /\ db' = [k \in DOMAIN db \ {Schema(usd_rate, rows[j]).id : j \in 2..(i - 1)} |-> db[k]]
          /\ UNCHANGED obj
    /\ UNCHANGED <<env, rows, usd_rate, i, row, delivered, cycleCalls, msg,
                   notifiedStart, todayStart, restarts>>

\* obj = db.merge(Test(**asdict(row))); db.commit()
MergeCommit ==
    /\ pc = "merge"
    /\ \/ /\ db' = Merge(db, row)
          /\ obj' = row.id
          /\ pc' = "check"
          /\ UNCHANGED <<err, faults>>
       \/ /\ Raise("storage", {})
          /\ UNCHANGED <<db, obj>>
    /\ UNCHANGED <<env, rows, usd_rate, i, row, delivered, cycleCalls, msg,
                   notifiedStart, todayStart, restarts>>

CheckExpirationAdvancesFirst ==
    /\ pc = "check"
    /\ i' = i + 1
    /\ pc' = IF Expired(db[obj], today) THEN "notify" ELSE "next"
    /\ UNCHANGED <<env, db, rows, usd_rate, row, obj, hist>>

\* if not obj.is_notified and obj.delivery_date < datetime.date.today()
CheckExpiration ==
    /\ pc = "check"
    /\ IF Expired(db[obj], today)
       THEN /\ pc' = "notify"
            /\ UNCHANGED i
       ELSE /\ pc' = "next"
            /\ i' = i + 1
    /\ UNCHANGED <<env, db, rows, usd_rate, row, obj, hist>>

NotifyCommitsFlagFirst ==
    /\ pc = "notify"
    /\ db' = SetNotified(db, obj)
    /\ cycleCalls' = [cycleCalls EXCEPT ![obj] = @ + 1]
    /\ msg' = Message(obj, db[obj])
    /\ \/ /\ delivered' = [delivered EXCEPT ![obj] = @ + 1]
          /\ pc' = "flag"
          /\ UNCHANGED <<err, faults>>
       \/ /\ Raise("notifier", {"notifier"})
          /\ UNCHANGED delivered
       \/ /\ Raise("notifier", {"notifier"})
          /\ delivered' = [delivered EXCEPT ![obj] = @ + 1]
    /\ UNCHANGED <<env, rows, usd_rate, i, row, obj, notifiedStart, todayStart,
                   restarts>>

\* _notify_about_delivery_date_expiration(obj): the message is sent, or the
\* call raises before or after the message went out
Notify ==
    /\ pc = "notify"
    /\ cycleCalls' = [cycleCalls EXCEPT ![obj] = @ + 1]
    /\ msg' = Message(obj, db[obj])
    /\ \/ /\ delivered' = [delivered EXCEPT ![obj] = @ + 1]
          /\ pc' = "flag"
          /\ UNCHANGED <<err, faults>>
       \/ /\ Raise("notifier", {"notifier"})
          /\ UNCHANGED delivered
       \/ /\ Raise("notifier", {"notifier"})
          /\ delivered' = [delivered EXCEPT ![obj] = @ + 1]
    /\ UNCHANGED <<env, db, rows, usd_rate, i, row, obj, notifiedStart, todayStart,
                   restarts>>

FlagCommitForgotten ==
    /\ pc = "flag"
    /\ pc' = "next"
    /\ i' = i + 1
    /\ UNCHANGED <<env, db, rows, usd_rate, row, obj, hist>>

\* obj.is_notified = True; db.commit()
FlagCommit ==
    /\ pc = "flag"
    /\ \/ /\ db' = SetNotified(db, obj)
          /\ pc' = "next"
          /\ i' = i + 1
          /\ UNCHANGED <<err, faults>>
       \/ /\ Raise("flagstorage", {"flagstorage"})
          /\ UNCHANGED <<db, i>>
    /\ UNCHANGED <<env, rows, usd_rate, row, obj, delivered, cycleCalls, msg,
                   notifiedStart, todayStart, restarts>>

\* job_update_date returns, the thread waits for the next interval
JobReturn ==
    /\ pc = "done"
    /\ pc' = "idle"
    /\ rows' = << >>
    /\ usd_rate' = 0
    /\ i' = 0
    /\ row' = NoSchema
    /\ obj' = 0
    /\ cycleCalls' = Zero
    /\ msg' = NoMessage
    /\ notifiedStart' = {}
    /\ todayStart' = FirstDay
    /\ UNCHANGED <<env, db, delivered, err, restarts, faults>>

\* the process ends (shut down, or killed at any point of a cycle) and is
\* started again: the table stays, everything in memory is new; between two
\* cycles, and when the job has just returned, this changes nothing
Restart ==
    /\ pc \notin {"idle", "done"}
    /\ restarts < MaxRestarts
    /\ restarts' = restarts + 1
    /\ faults' = IF pc = "dead" THEN faults ELSE faults \cup {"crash"}
    /\ pc' = "idle"
    /\ rows' = << >>
    /\ usd_rate' = 0
    /\ i' = 0
    /\ row' = NoSchema
    /\ obj' = 0
    /\ cycleCalls' = Zero
    /\ msg' = NoMessage
    /\ err' = "none"
    /\ notifiedStart' = {}
    /\ todayStart' = FirstDay
    /\ UNCHANGED <<env, db, delivered>>

JobStep ==
    \/ Tick
    \/ GetOrderData
    \/ GetUsdCurrencyRate
    \/ NextRow
    \/ MergeCommit
    \/ CheckExpiration
    \/ Notify
    \/ FlagCommit
    \/ JobReturn

Next ==
    \/ EditSheet
    \/ Midnight
    \/ Tick
    \/ GetOrderData
    \/ GetUsdCurrencyRate
    \/ NextRow
    \/ MergeCommit
    \/ CheckExpiration
    \/ Notify
    \/ FlagCommit
    \/ JobReturn
    \/ Restart

Spec == Init /\ [][Next]_vars

\* the job thread runs whenever it can
FairSpec == Spec /\ WF_vars(JobStep)

(***************************************************************************)
(* Vocabulary of the properties.                                           *)
(***************************************************************************)
NotifiedIds(table) == {k \in DOMAIN table : table[k].is_notified}

\* the cycle is over: job_update_date returned or raised
CycleEnded == pc \in {"done", "dead"}

\* the data rows of the fetched batch
DataIndex == 2..Len(rows)

\* SchemaOk and Schema of every row and rate of the model, worked out once
RowOk == [x \in DataRows \cup HeaderlessFirst \cup {Header} |-> SchemaOk(x)]

RowRecord ==
    [r \in Rates \cup {0}, x \in {y \in DataRows \cup HeaderlessFirst : SchemaOk(y)}
        |-> Schema(r, x)]

\* data row k of the batch is well-formed
Valid(k) == RowOk[rows[k]]

\* the record of data row k of the batch
Record(k) == RowRecord[usd_rate, rows[k]]

\* data row k of the batch is a valid row that was overdue, and not yet
\* notified, when the cycle began
OverdueAtStart(k) ==
    /\ Valid(k)
    /\ DateLess(Record(k).delivery_date, todayStart)
    /\ Record(k).id \notin notifiedStart

\* the cycle has upserted data row k and looked at its expiration
Observed(k) ==
    \/ k < i
    \/ k = i /\ err \in {"notifier", "flagstorage"}

\* the row o of the table is as the upsert of the record r has written it
SameFields(o, r) ==
    /\ o.order_id = r.order_id
    /\ o.cost_usd = Float(r.cost_usd)
    /\ o.cost_rur = Float(r.cost_rur)
    /\ o.delivery_date = r.delivery_date

\* the row o of the table carries the values of the record r
RecordValues(o, r) ==
    /\ o.order_id = r.order_id
    /\ o.cost_usd = r.cost_usd
    /\ o.cost_rur = r.cost_rur
    /\ o.delivery_date = r.delivery_date

(***************************************************************************)
(* C1: once the persisted notified flag of an id is true it is true in     *)
(* every later state; no upsert and no expiration step resets it.          *)
(***************************************************************************)
C1_NotifiedMonotone == [][NotifiedIds(db) \subseteq NotifiedIds(db')]_vars

\* a record that was notified before the cycle has been upserted again
C1_Witness ==
    /\ pc = "check"
    /\ obj \in notifiedStart
    /\ db[obj].is_notified

(***************************************************************************)
(* C2: the upsert inserts an absent id with notified = false; for a        *)
(* present id it replaces orderNumber, costUsd, costLocal and deliveryDate *)
(* by the record's values and leaves notified as it was; rows of other ids *)
(* are unchanged.                                                          *)
(***************************************************************************)
C2_UpsertEffect ==
    [][(pc = "merge" /\ pc' = "check") =>
        /\ DOMAIN db' = DOMAIN db \cup {row.id}
        /\ RecordValues(db'[row.id], Record(i))
        /\ db'[row.id].is_notified = (row.id \in DOMAIN db /\ db[row.id].is_notified)
        /\ \A k \in DOMAIN db \ {row.id} : db'[k] = db[k]]_vars

\* Row_B has been merged into the notified record that Row_A had created,
\* while the record of id 2 is in the table
C2_Witness ==
    /\ pc = "check"
    /\ obj = 1
    /\ db[1].is_notified
    /\ db[1].order_id = 11
    /\ db[1].delivery_date = <<2020, 2, 1>>
    /\ 2 \in DOMAIN db

(***************************************************************************)
(* C3 as stated: absent notifier failure, a record that is overdue with    *)
(* notified = false gets exactly one notifier call in the cycle that       *)
(* first observes it overdue and its flag is true at the end of that       *)
(* cycle, also when its id occurs in several rows of the batch.            *)
(***************************************************************************)
C3_Original ==
    (CycleEnded /\ err # "notifier") =>
        \A k \in DataIndex : (Observed(k) /\ OverdueAtStart(k)) =>
            /\ cycleCalls[Record(k).id] = 1
            /\ db[Record(k).id].is_notified

(***************************************************************************)
(* C3 amended: absent notifier failure, such a record gets exactly one     *)
(* notifier call in that cycle, and its flag is true at the end of the     *)
(* cycle unless the commit of the flag failed with a storage error.        *)
(***************************************************************************)
C3_OneNotifyPerExpiration ==
    (CycleEnded /\ err # "notifier") =>
        \A k \in DataIndex : (Observed(k) /\ OverdueAtStart(k)) =>
            /\ cycleCalls[Record(k).id] = 1
            /\ \/ db[Record(k).id].is_notified
               \/ err = "flagstorage" /\ k = i

\* a cycle over two rows of the same overdue id has ended with one call
C3_Witness ==
    /\ pc = "done"
    /\ Len(rows) = 3
    /\ OverdueAtStart(2)
    /\ Valid(3)
    /\ Record(3).id = Record(2).id
    /\ cycleCalls[Record(2).id] = 1
    /\ db[Record(2).id].is_notified

(***************************************************************************)
(* C4 as stated: the notifier is never invoked for an id whose persisted   *)
(* flag is true, so in a run without notifier failures or crashes every id *)
(* gets at most one notifier call over all cycles.                         *)
(***************************************************************************)
\* every call counts in cycleCalls; without a notifier failure every call
\* sends its message, so delivered counts the calls of the whole run
NoCallWhenNotified ==
    \A k \in Ids : cycleCalls'[k] > cycleCalls[k] => k \notin NotifiedIds(db)

C4_Original ==
    /\ [][NoCallWhenNotified]_vars
    /\ [](faults \cap {"notifier", "crash"} = {} => \A k \in Ids : delivered[k] <= 1)

(***************************************************************************)
(* C4 amended: the notifier is never invoked for an id whose persisted     *)
(* flag is true, so in a run without notifier failures, crashes or storage *)
(* failures of the flag commit every id gets at most one notifier call.    *)
(***************************************************************************)
C4_NotifiedTerminal ==
    /\ [][NoCallWhenNotified]_vars
    /\ [](faults = {} => \A k \in Ids : delivered[k] <= 1)

\* id 1 was notified, its date was then moved to 1 February, that date has
\* passed, and the expiration check went by without a second call
C4_Witness ==
    /\ pc = "next"
    /\ obj = 1
    /\ i = 3
    /\ db[1].is_notified
    /\ db[1].delivery_date = <<2020, 2, 1>>
    /\ today = <<2020, 2, 2>>
    /\ delivered[1] = 1
    /\ faults = {}

(***************************************************************************)
(* C5: a cycle over a batch with one malformed row persists every valid    *)
(* row of the batch, those behind the malformed row included, and          *)
(* evaluates the expiration of each of them; only the malformed row is     *)
(* skipped.                                                                *)
(***************************************************************************)
\* the cycle has persisted valid data row k, as far as the rows up to row
\* last go, and has notified it if it was overdue when the cycle began
PersistedRow(k, last) ==
    /\ Record(k).id \in DOMAIN db
    /\ (\A j \in (k + 1)..last : Valid(j) => Record(j).id # Record(k).id)
          => SameFields(db[Record(k).id], Record(k))
    /\ DateLess(Record(k).delivery_date, todayStart) => db[Record(k).id].is_notified

MalformedRows == {k \in DataIndex : ~Valid(k)}

C5_MalformedRowIsolation ==
    (CycleEnded /\ err \in {"none", "malformed"} /\ Cardinality(MalformedRows) = 1) =>
        \A k \in DataIndex \ MalformedRows : PersistedRow(k, Len(rows))

(***************************************************************************)
(* C6: the persisted notified flag of an id becomes true only after a      *)
(* notifier call for that id has returned successfully, in a commit that   *)
(* is separate from and later than the upsert commit; if the notifier call *)
(* fails the flag of that id stays false.                                  *)
(***************************************************************************)
C6_FlagOnlyAfterNotify ==
    [][/\ \A k \in NotifiedIds(db') \ NotifiedIds(db) :
            /\ pc = "flag" /\ obj = k /\ err = "none"
            /\ cycleCalls[k] >= 1 /\ delivered[k] >= 1
            /\ k \in DOMAIN db /\ SameFields(db[k], row)
            /\ db' = [db EXCEPT ![k].is_notified = TRUE]
       /\ err' = "notifier" => (db' = db /\ obj \notin NotifiedIds(db'))]_vars

\* the notifier call for a persisted overdue record has failed
C6_Witness ==
    /\ pc = "dead"
    /\ err = "notifier"
    /\ cycleCalls[obj] = 1
    /\ ~db[obj].is_notified

(***************************************************************************)
(* C7: an overdue order with notified = false that the source keeps        *)
(* reporting is, under a fair scheduler and a notifier that fails only     *)
(* finitely often, retried on the following cycles and eventually notified *)
(* with its flag set to true.                                              *)
(***************************************************************************)
\* the table holds id k overdue and not notified
Pending(k) == k \in DOMAIN db /\ Expired(db[k], today)

\* the sheet has a valid, overdue data row of id k
Reports(k) ==
    \E j \in 2..Len(sheet) :
        /\ SchemaOk(sheet[j])
        /\ ParseInt(sheet[j][1]) = k
        /\ DateLess(ParseDate(sheet[j][4]), today)

C7_NeverDropped ==
    \A k \in Ids : []((Pending(k) /\ []Reports(k)) => <>(k \in NotifiedIds(db)))

(***************************************************************************)
(* C8: a failed cycle is caught at the cycle boundary and the next         *)
(* scheduled cycle still runs: after any failed cycle a later cycle is     *)
(* eventually started.                                                     *)
(***************************************************************************)
C8_NextCycleRuns == (CycleEnded /\ err # "none") ~> (pc = "fetch")

(***************************************************************************)
(* C9: a failure of the order-source fetch or of the rate fetch aborts the *)
(* cycle before any row is touched: the store is the same before and after *)
(* such a cycle and the cycle makes no notifier call.                      *)
(***************************************************************************)
FetchFailed == err \in {"source", "rate"}

C9_FetchFailureTouchesNothing ==
    [][(pc \in {"idle", "fetch", "rate"} \/ FetchFailed \/ FetchFailed') =>
        /\ db' = db
        /\ cycleCalls' = cycleCalls
        /\ delivered' = delivered
        /\ FetchFailed' => pc' = "dead"]_vars

\* the rate fetch has failed over a table that holds a notified record
C9_Witness ==
    /\ pc = "dead"
    /\ err = "rate"
    /\ Len(rows) > 1
    /\ NotifiedIds(db) # {}

(***************************************************************************)
(* C10: when the upsert of the k-th row fails with a storage error, the    *)
(* upserts and the flag commits of the rows before it stay persisted, and  *)
(* the k-th row gets no notifier call and no flag change.                  *)
(***************************************************************************)
C10_RowsAreTransactions ==
    /\ []((pc = "dead" /\ err = "storage") =>
            \A k \in 2..(i - 1) : PersistedRow(k, i - 1))
    /\ [][err' = "storage" =>
            (db' = db /\ cycleCalls' = cycleCalls /\ pc' = "dead")]_vars

\* the upsert of the second data row has failed after the first data row
\* was inserted and notified in the same cycle
C10_Witness ==
    /\ pc = "dead"
    /\ err = "storage"
    /\ i = 3
    /\ Record(2).id \notin notifiedStart
    /\ cycleCalls[Record(2).id] = 1
    /\ db[Record(2).id].is_notified

(***************************************************************************)
(* C11: cycles never overlap: a cycle is started only when no cycle is in  *)
(* progress, so the steps of two cycles never interleave on the session.   *)
(***************************************************************************)
\* a cycle is in progress from the call of job_update_date to its return
CycleRunning == pc \in {"fetch", "rate", "next", "merge", "check", "notify", "flag", "done"}

C12_StrictOverdue ==
    [][/\ \A k \in Ids : cycleCalls'[k] > cycleCalls[k] =>
            /\ k = obj
            /\ k \in DOMAIN db
            /\ ~db[k].is_notified
            /\ DateLess(db[k].delivery_date, today)
       /\ \A k \in NotifiedIds(db') \ NotifiedIds(db) :
            DateLess(db[k].delivery_date, today)
       /\ (pc = "check" /\ pc' \notin {"check", "idle"}
             /\ ~DateLess(db[obj].delivery_date, today)) =>
            (pc' = "next" /\ i' = i + 1 /\ db' = db /\ cycleCalls' = cycleCalls)]_vars

\* the expiration check has passed a record that is due today, not notified,
\* without a call
C12_Witness ==
    /\ pc = "next"
    /\ i = 3
    /\ obj \in DOMAIN db
    /\ db[obj].delivery_date = today
    /\ ~db[obj].is_notified
    /\ cycleCalls[obj] = 0

(***************************************************************************)
(* C13: right after the upsert of a row with cost c in a cycle with rate r *)
(* the persisted costLocal of its id is round(c * r, 2) and the persisted  *)
(* costUsd is c; a cycle with another rate changes costLocal only for the  *)
(* ids it ingests again and leaves the other records as they were.         *)
(***************************************************************************)
C13_ConversionCorrect ==
    [][/\ (pc = "merge" /\ pc' = "check") =>
            /\ db'[row.id].cost_usd = ParseFloat(rows[i][3])
            /\ db'[row.id].cost_rur = Round2(ParseFloat(rows[i][3]) * usd_rate)
       /\ \A k \in DOMAIN db :
            db'[k].cost_rur # db[k].cost_rur =>
                (pc = "merge" /\ Valid(i) /\ Record(i).id = k)]_vars

(***************************************************************************)
(* C14: the upsert is idempotent: upserting a record a second time with    *)
(* the same values gives the persisted state the first upsert gave, and    *)
(* the notified flag of the id is the same before and after both upserts.  *)
(***************************************************************************)
C14_UpsertIdempotent ==
    [][(pc = "merge" /\ pc' = "check") =>
        /\ Merge(db', row) = db'
        /\ (row.id \in DOMAIN db /\ SameFields(db[row.id], row)) => db' = db
        /\ row.id \in DOMAIN db =>
             /\ db'[row.id].is_notified = db[row.id].is_notified
             /\ Merge(db', row)[row.id].is_notified = db[row.id].is_notified]_vars

\* the record of id 2, which only Row_C creates, with the same values at
\* either rate, has been upserted again after it was notified
C14_Witness ==
    /\ pc = "check"
    /\ obj = 2
    /\ 2 \in notifiedStart
    /\ SameFields(db[2], row)
    /\ db[2].is_notified

(***************************************************************************)
(* C15: a raw row with a negative cost is rejected and never persisted, so *)
(* every persisted record has costUsd >= 0.                                *)
(***************************************************************************)
C15_NoNegativeCost == \A k \in DOMAIN db : db[k].cost_usd >= 0

(***************************************************************************)
(* C16: no record is ever deleted: the set of persisted ids only grows; a  *)
(* persisted record whose id is not in the current batch keeps all its     *)
(* fields through the cycle and is not evaluated for expiration.           *)
(***************************************************************************)
\* the ids of the data rows of the batch
BatchIds == {Record(k).id : k \in {j \in DataIndex : Valid(j)}}

C16_NeverDeletes ==
    [][/\ DOMAIN db \subseteq DOMAIN db'
       /\ obj' # obj => obj' \in BatchIds \cup {0}
       /\ \A k \in DOMAIN db : k \notin BatchIds =>
            /\ db'[k] = db[k]
            /\ cycleCalls'[k] = cycleCalls[k]
            /\ delivered'[k] = delivered[k]]_vars

\* a cycle over a batch without id 2 has ended, and the record of id 2,
\* overdue and not notified, is as it was
C16_Witness ==
    /\ pc = "done"
    /\ BatchIds = {1}
    /\ 2 \in DOMAIN db
    /\ ~db[2].is_notified
    /\ DateLess(db[2].delivery_date, today)
    /\ cycleCalls[2] = 0

(***************************************************************************)
(* C17: within a cycle the rows are processed one at a time in source      *)
(* order; the notifier is invoked for a row only after the upsert of that  *)
(* row is committed, with the id and deliveryDate of the persisted row     *)
(* after the merge; the upsert of the next row does not begin before the   *)
(* expiration step of the current row has ended.                           *)
(***************************************************************************)
C17_RowsInOrder ==
    [][/\ i' # i =>
            \/ pc = "rate" /\ i' = 2
            \/ pc \in {"check", "flag"} /\ pc' = "next" /\ i' = i + 1
            \/ pc' = "idle" /\ i' = 0
       /\ db' # db /\ pc = "merge" =>
            /\ Valid(i) /\ row = Record(i)
            /\ \A k \in DOMAIN db : k # Record(i).id => db'[k] = db[k]
       /\ \A k \in Ids : cycleCalls'[k] > cycleCalls[k] =>
            /\ pc = "notify"
            /\ Valid(i) /\ k = Record(i).id
            /\ k \in DOMAIN db /\ SameFields(db[k], Record(i))
            /\ msg'.id = rows[i][1]
            /\ msg'.delivery_date = IsoDate(db[k].delivery_date)
            /\ db[k].delivery_date = ParseDate(rows[i][4])
       /\ pc' = "merge" => pc = "next"
       /\ pc' = "next" => pc \in {"rate", "check", "flag"}]_vars

\* the second data row is being notified, with its own id and date, after
\* the first one was upserted, notified and flagged in this cycle
C17_Witness ==
    /\ pc = "flag"
    /\ i = 3
    /\ obj = 2
    /\ msg = [id |-> <<"2">>,
              delivery_date |-> <<"2", "0", "2", "0", "-", "0", "1", "-", "3", "0">>]
    /\ 1 \in NotifiedIds(db) \ notifiedStart

(***************************************************************************)
(* C18: the first row of every fetched batch is taken as the header and    *)
(* discarded whatever it holds: it is never normalized or persisted and    *)
(* causes no notification and no failure; an empty batch or a batch of the *)
(* header only changes nothing in the store.                               *)
(***************************************************************************)
C18_HeaderDiscarded ==
    [][/\ (pc = "next" /\ pc' \in {"merge", "dead"}) => (i >= 2 /\ i <= Len(rows))
       /\ row' # row => (pc = "next" /\ pc' = "merge") \/ row' = NoSchema
       /\ (pc = "next" /\ pc' = "merge") => row' = Record(i)
       /\ (db' # db \/ cycleCalls' # cycleCalls \/ delivered' # delivered) =>
            \/ pc' = "idle"
            \/ /\ i >= 2 /\ i <= Len(rows)
               /\ Valid(i)
               /\ \A k \in Ids :
                    (k # Record(i).id /\ k \in DOMAIN db') =>
                        (k \in DOMAIN db /\ db'[k] = db[k]
                           /\ delivered'[k] = delivered[k])
       /\ Len(rows) <= 1 =>
            /\ db' = db
            /\ delivered' = delivered
            /\ pc = "next" => pc' \in {"done", "idle"}]_vars

\* a cycle has ended over a batch whose first row is the well-formed Row_C:
\* the rows after it are in the table, the record of Row_C is not
C18_Witness ==
    /\ pc = "done"
    /\ Len(rows) >= 2
    /\ rows[1] = Row_C
    /\ 2 \notin DOMAIN db
    /\ 1 \in DOMAIN db

(***************************************************************************)
(* C19: with crashes and notifier failures after delivery, an id gets a    *)
(* second delivered notification only if an earlier delivered one was not  *)
(* followed by the commit of notified = true: in that window the flag is   *)
(* still false and the next cycle that sees the id overdue notifies again; *)
(* in no other situation is more than one notification delivered to an id. *)
(***************************************************************************)
C19_DuplicateOnlyInWindow ==
    [][\A k \in Ids : delivered'[k] > delivered[k] =>
        /\ delivered'[k] = delivered[k] + 1
        /\ k \in DOMAIN db
        /\ ~db[k].is_notified
        /\ DateLess(db[k].delivery_date, today)
        /\ delivered[k] >= 1 =>
             /\ faults \cap {"notifier", "crash", "flagstorage"} # {}
             /\ restarts >= 1
             /\ cycleCalls[k] = 0]_vars

\* an id has got a second delivered notification, and its flag is set now
C19_Witness == \E k \in DOMAIN db : delivered[k] = 2 /\ db[k].is_notified

=============================================================================
